---- MODULE Spec2Model ----
(***************************************************************************)
(* A model of mix_oklab.ts: the hex-string codec (stringToHex,             *)
(* hexToString), the sRGB transfer functions (hexToLinearRGB,              *)
(* linearRGBtoHex), the OKLab mixing engine (oklabMix) and the CLI         *)
(* handler `call` that drives them.                                        *)
(*                                                                         *)
(* NUMBERS.  A JavaScript number that is the result of floating-point      *)
(* arithmetic is modelled by an enclosure [nan, lo, hi]: lo and hi are     *)
(* integers counting units of 2^-28 and the double the code computes lies  *)
(* in [lo, hi] * 2^-28 (nan = TRUE: the double may also be NaN).  Every    *)
(* arithmetic operator below returns an enclosure of the exact real result *)
(* over its operand enclosures, rounded outwards to the grid.  The grid    *)
(* points are themselves doubles and IEEE rounding is monotone, so the     *)
(* rounded results of + - * / stay inside; Math.pow, which need not be     *)
(* correctly rounded, is widened by one further unit.  A property that     *)
(* holds of every value of an enclosure holds of the double.               *)
(***************************************************************************)
EXTENDS Integers, Sequences, FiniteSets, TLC

(***************************************************************************)
(* Fixed-point arithmetic on 32-bit integers (TLC's integers are 32 bit:   *)
(* products are formed from 14-bit halves so that nothing overflows for    *)
(* magnitudes below 8.0).                                                  *)
(***************************************************************************)
Half == 2^14
One == Half * Half

Abs(a) == IF a < 0 THEN -a ELSE a
Min2(a, b) == IF a <= b THEN a ELSE b
Max2(a, b) == IF a >= b THEN a ELSE b

\* floor(a * b / One) for a, b >= 0
MulDown(a, b) ==
    LET ah == a \div Half
        al == a % Half
        bh == b \div Half
        bl == b % Half
    IN  ah * bh + ((ah * bl + al * bh) + (al * bl) \div Half) \div Half

\* ceiling(a * b / One) for a, b >= 0
MulUp(a, b) ==
    LET ah == a \div Half
        al == a % Half
        bh == b \div Half
        bl == b % Half
        t  == (ah * bl + al * bh) + (al * bl) \div Half
        exact == (al * bl) % Half = 0 /\ t % Half = 0
    IN  ah * bh + t \div Half + (IF exact THEN 0 ELSE 1)

\* floor and ceiling of the signed product a * b / One
SMulDown(a, b) ==
    IF (a < 0) = (b < 0) THEN MulDown(Abs(a), Abs(b)) ELSE -MulUp(Abs(a), Abs(b))
SMulUp(a, b) ==
    IF (a < 0) = (b < 0) THEN MulUp(Abs(a), Abs(b)) ELSE -MulDown(Abs(a), Abs(b))

\* floor(a * n / d) for any integer a and integers 0 <= n, 0 < d <= 10000
RatDown(a, n, d) ==
    LET ah == a \div Half
        al == a % Half
        p  == ah * n
    IN  (p \div d) * Half + ((p % d) * Half + al * n) \div d

\* ceiling(a * n / d)
RatUp(a, n, d) == -RatDown(-a, n, d)

(***************************************************************************)
(* Enclosures.                                                             *)
(*                                                                         *)
(* Ap1, Ap2 and Ap3 apply an operator to the values of their arguments:    *)
(* each argument is evaluated once and bound, as JavaScript evaluates the  *)
(* arguments of a call before the call.                                    *)
(***************************************************************************)
Ap1(F(_), a) == CHOOSE r \in { F(u) : u \in {a} } : TRUE
Ap2(F(_, _), a, b) == CHOOSE r \in { F(u, v) : u \in {a}, v \in {b} } : TRUE
Ap3(F(_, _, _), a, b, c) ==
    CHOOSE r \in { F(u, v, w) : u \in {a}, v \in {b}, w \in {c} } : TRUE

\* nan = TRUE with lo = hi = 0 is NaN itself; nan = TRUE with other bounds
\* is a value that may be NaN
Num(lo, hi) == [nan |-> FALSE, lo |-> lo, hi |-> hi]
NaN == [nan |-> TRUE, lo |-> 0, hi |-> 0]
Exact(a) == Num(a, a)

\* the decimal literal ip.ffffffffff with ten fraction digits given as two
\* five-digit groups f1 f2: bits[k] is the fraction (f1, f2) doubled k times
RECURSIVE FracBits(_, _, _)
FracBits(f1, f2, k) ==
    IF k = 0 THEN [q |-> 0, f1 |-> f1, f2 |-> f2]
    ELSE LET p  == FracBits(f1, f2, k - 1)
             l  == 2 * p.f2
             h  == 2 * p.f1 + l \div 100000
         IN  [q |-> 2 * p.q + h \div 100000, f1 |-> h % 100000, f2 |-> l % 100000]

Dec10(neg, ip, f1, f2) ==
    LET b  == FracBits(f1, f2, 28)
        lo == ip * One + b.q
        hi == lo + (IF b.f1 = 0 /\ b.f2 = 0 THEN 0 ELSE 1)
    IN  IF neg THEN Num(-hi, -lo) ELSE Num(lo, hi)

Add(ex, ey) ==
    Ap2(LAMBDA x, y : [nan |-> x.nan \/ y.nan, lo |-> x.lo + y.lo, hi |-> x.hi + y.hi],
        ex, ey)

Sub(ex, ey) ==
    Ap2(LAMBDA x, y : [nan |-> x.nan \/ y.nan, lo |-> x.lo - y.hi, hi |-> x.hi - y.lo],
        ex, ey)

Mul(ex, ey) ==
    Ap2(LAMBDA x, y :
        IF x.lo >= 0 /\ y.lo >= 0
        THEN [nan |-> x.nan \/ y.nan, lo |-> MulDown(x.lo, y.lo), hi |-> MulUp(x.hi, y.hi)]
        ELSE [nan |-> x.nan \/ y.nan,
              lo  |-> Min2(Min2(SMulDown(x.lo, y.lo), SMulDown(x.lo, y.hi)),
                           Min2(SMulDown(x.hi, y.lo), SMulDown(x.hi, y.hi))),
              hi  |-> Max2(Max2(SMulUp(x.lo, y.lo), SMulUp(x.lo, y.hi)),
                           Max2(SMulUp(x.hi, y.lo), SMulUp(x.hi, y.hi)))],
        ex, ey)

\* x * (n / d) for the decimal literal n / d > 0.  The double nearest to the
\* literal is not the literal, so the result is widened by a unit, except
\* that a double product keeps the sign of x (0 stays 0).
Scale(ex, en, ed) ==
    Ap3(LAMBDA x, n, d :
        LET lo == RatDown(x.lo, n, d)
            hi == RatUp(x.hi, n, d)
        IN  [nan |-> x.nan,
             lo  |-> IF x.lo >= 0 THEN Max2(lo - 1, 0) ELSE lo - 1,
             hi  |-> IF x.hi <= 0 THEN Min2(hi + 1, 0) ELSE hi + 1],
        ex, en, ed)

\* the quotient of the integers i / n, 0 <= i, 0 < n < Half
DivInt(i, n) ==
    LET p  == i * Half
        lo == (p \div n) * Half + ((p % n) * Half) \div n
    IN  Num(lo, IF (p % n) = 0 \/ ((p % n) * Half) % n = 0 THEN lo ELSE lo + 1)

(***************************************************************************)
(* Roots by bisection.  PowDown(r, n) <= r^n <= PowUp(r, n), so the        *)
(* largest r with PowUp(r, n) <= v is a lower bound of the n-th root of v  *)
(* and the smallest r with PowDown(r, n) >= v an upper bound.              *)
(***************************************************************************)
RECURSIVE PowDown(_, _)
PowDown(r, n) == IF n = 1 THEN r ELSE MulDown(PowDown(r, n - 1), r)
RECURSIVE PowUp(_, _)
PowUp(r, n) == IF n = 1 THEN r ELSE MulUp(PowUp(r, n - 1), r)

RECURSIVE RootLo(_, _, _, _)
RootLo(v, n, a, b) ==
    IF a >= b THEN a
    ELSE LET m == (a + b + 1) \div 2
         IN  IF PowUp(m, n) <= v THEN RootLo(v, n, m, b) ELSE RootLo(v, n, a, m - 1)

RECURSIVE RootHi(_, _, _, _)
RootHi(v, n, a, b) ==
    IF a >= b THEN b
    ELSE LET m == (a + b) \div 2
         IN  IF PowDown(m, n) >= v THEN RootHi(v, n, a, m) ELSE RootHi(v, n, m + 1, b)

\* an upper bound of the n-th root of v: 1 for v <= 1, 1 + (v - 1) / n above
RootMax(v, n) == IF v <= One THEN One ELSE One + (v - One) \div n + 1

\* the n-th root of an enclosure with lo >= 0
Root(ex, en) ==
    Ap2(LAMBDA x, n :
        [nan |-> x.nan,
         lo  |-> RootLo(x.lo, n, 0, RootMax(x.lo, n)),
         hi  |-> RootHi(x.hi, n, 0, RootMax(x.hi, n))],
        ex, en)

\* a result of Math.pow on a base >= 0: widened by a unit, never below 0
PowWiden(ex) ==
    Ap1(LAMBDA x : [x EXCEPT !.lo = Max2(@ - 1, 0), !.hi = @ + 1],
        ex)

(***************************************************************************)
(* Math.pow(base, exp) for the three exponents the program uses, named by  *)
(* their source text.  A base below 0 with a fractional exponent is NaN; a *)
(* base whose enclosure reaches below 0 may be NaN.                        *)
(*   x^(1/3)   = cbrt x                                                    *)
(*   x^2.4     = x^2 * (x^2)^(1/5)                                         *)
(*   x^(1/2.4) = x^(5/12) = cbrt x * sqrt(sqrt(cbrt x))                    *)
(***************************************************************************)
PowNonNeg(x, exp) ==
    CASE exp = "1.0 / 3.0" -> PowWiden(Root(x, 3))
      [] exp = "2.4"       -> Ap1(LAMBDA sq : PowWiden(Mul(sq, Root(sq, 5))), Mul(x, x))
      [] exp = "1 / 2.4"   -> Ap1(LAMBDA c : PowWiden(Mul(c, Root(Root(c, 2), 2))), Root(x, 3))

Math_pow(ex, eexp) ==
    Ap2(LAMBDA x, exp :
        IF x.nan \/ x.hi < 0 THEN NaN
        ELSE IF x.lo = 0 /\ x.hi = 0 THEN Exact(0)
        ELSE IF x.lo < 0 THEN [PowNonNeg([x EXCEPT !.lo = 0], exp) EXCEPT !.nan = TRUE]
        ELSE PowNonNeg(x, exp),
        ex, eexp)

Hull(ex, ey) ==
    Ap2(LAMBDA x, y : [nan |-> x.nan \/ y.nan, lo |-> Min2(x.lo, y.lo), hi |-> Max2(x.hi, y.hi)],
        ex, ey)

\* cond ? a : b for the comparison x <= t of two doubles.  NaN <= t is false.
\* When the enclosures overlap either branch may be taken: `then` sees x cut
\* to the values that can be <= t, `else` to those that can be > t.
Ternary(ex, et, Then(_), Else(_)) ==
    Ap2(LAMBDA x, t :
        IF x.nan /\ x.lo = 0 /\ x.hi = 0 THEN Else(NaN)
        ELSE LET yes == IF x.hi <= t.lo THEN {"then"}
                        ELSE IF x.lo > t.hi THEN {"else"} ELSE {"then", "else"}
                 a   == Then([x EXCEPT !.nan = FALSE, !.hi = Min2(x.hi, t.hi)])
                 b   == Else([x EXCEPT !.nan = FALSE, !.lo = Max2(x.lo, t.lo)])
                 r   == IF yes = {"then"} THEN a ELSE IF yes = {"else"} THEN b ELSE Hull(a, b)
             IN  IF x.nan THEN [r EXCEPT !.nan = TRUE] ELSE r,
        ex, et)

(***************************************************************************)
(* 32-bit integer operators of JavaScript.                                 *)
(***************************************************************************)
\* the integers (x * 255 + 0.5) | 0 can be: truncation toward zero of every
\* value of the enclosure; NaN | 0 is 0
TruncOf(a) ==
    LET ah == a \div Half
        al == a % Half
        t  == ah * 255 + Half \div 2 + (al * 255) \div Half
        fl == t \div Half
        exact == (al * 255) % Half = 0 /\ t % Half = 0
    IN  IF fl >= 0 \/ exact THEN fl ELSE fl + 1

Times255PlusHalfOr0(x) ==
    (IF x.nan THEN {0} ELSE {}) \cup
    (IF x.nan /\ x.lo = 0 /\ x.hi = 0 THEN {} ELSE TruncOf(x.lo) .. TruncOf(x.hi))

\* a | b on two's-complement integers
RECURSIVE BitOr(_, _)
BitOr(a, b) ==
    IF a = 0 THEN b
    ELSE IF b = 0 THEN a
    ELSE IF a = -1 \/ b = -1 THEN -1
    ELSE 2 * BitOr(a \div 2, b \div 2) + (IF a % 2 = 1 \/ b % 2 = 1 THEN 1 ELSE 0)

\* a << k as a 32-bit integer
Shl(a, k) ==
    LET w == 2^(32 - k)
        m == a % w
    IN  (IF m >= w \div 2 THEN m - w ELSE m) * 2^k

\* (hex >> k) & 0xFF
ShrAnd255(hex, k) == (hex \div 2^k) % 256

(***************************************************************************)
(* mix_oklab.ts, lines 3-53: vectors, matrices and the mixing engine.      *)
(* A Vec3 is a tuple of three enclosures, indexed from 1.                  *)
(***************************************************************************)
mat3MultiplyVec3(emat, evec) ==
    Ap2(LAMBDA mat, vec :
        << Add(Add(Mul(mat[1][1], vec[1]), Mul(mat[1][2], vec[2])), Mul(mat[1][3], vec[3])),
           Add(Add(Mul(mat[2][1], vec[1]), Mul(mat[2][2], vec[2])), Mul(mat[2][3], vec[3])),
           Add(Add(Mul(mat[3][1], vec[1]), Mul(mat[3][2], vec[2])), Mul(mat[3][3], vec[3])) >>,
        emat, evec)

\* mix with a fault: the two weights exchanged
mixSwapped(ea, eb, eh) ==
    Ap3(LAMBDA a, b, h :
        << Add(Mul(a[1], h), Mul(b[1], Sub(Exact(One), h))),
           Add(Mul(a[2], h), Mul(b[2], Sub(Exact(One), h))),
           Add(Mul(a[3], h), Mul(b[3], Sub(Exact(One), h))) >>,
        ea, eb, eh)

mix(ea, eb, eh) ==
    Ap3(LAMBDA a, b, h :
        << Add(Mul(a[1], Sub(Exact(One), h)), Mul(b[1], h)),
           Add(Mul(a[2], Sub(Exact(One), h)), Mul(b[2], h)),
           Add(Mul(a[3], Sub(Exact(One), h)), Mul(b[3], h)) >>,
        ea, eb, eh)

powVec3(evec, eexp) ==
    Ap2(LAMBDA vec, exp :
        << Math_pow(vec[1], exp), Math_pow(vec[2], exp), Math_pow(vec[3], exp) >>,
        evec, eexp)

\* kCONEtoLMS with a fault: the sign of one entry flipped
kCONEtoLMSNegative ==
    << << Dec10(FALSE, 0, 41216, 56120), Dec10(FALSE, 0, 21185, 91070), Dec10(TRUE,  0,  8830, 97947) >>,
       << Dec10(FALSE, 0, 53627, 52080), Dec10(FALSE, 0, 68071, 89584), Dec10(FALSE, 0, 28184, 74174) >>,
       << Dec10(FALSE, 0,  5145, 75653), Dec10(FALSE, 0, 10740, 65790), Dec10(FALSE, 0, 63026, 13616) >> >>

kCONEtoLMS ==
    << << Dec10(FALSE, 0, 41216, 56120), Dec10(FALSE, 0, 21185, 91070), Dec10(FALSE, 0,  8830, 97947) >>,
       << Dec10(FALSE, 0, 53627, 52080), Dec10(FALSE, 0, 68071, 89584), Dec10(FALSE, 0, 28184, 74174) >>,
       << Dec10(FALSE, 0,  5145, 75653), Dec10(FALSE, 0, 10740, 65790), Dec10(FALSE, 0, 63026, 13616) >> >>

kLMStoCONE ==
    << << Dec10(FALSE, 4,  7672, 45293), Dec10(TRUE,  1, 26814, 37731), Dec10(TRUE,  0,   411, 19885) >>,
       << Dec10(TRUE,  3, 30721, 68827), Dec10(FALSE, 2, 60933, 23231), Dec10(TRUE,  0, 70347, 63098) >>,
       << Dec10(FALSE, 0, 23075, 90544), Dec10(TRUE,  0, 34113, 44290), Dec10(FALSE, 1, 70686, 25689) >> >>

\* lines 43-46: the interpolated vector in the cube-root domain
oklabLms(colA, colB, h) ==
    LET lmsA == powVec3(mat3MultiplyVec3(kCONEtoLMS, colA), "1.0 / 3.0")
        lmsB == powVec3(mat3MultiplyVec3(kCONEtoLMS, colB), "1.0 / 3.0")
    IN  mix(lmsA, lmsB, h)

oklabMix(colA, colB, h) ==
    Ap1(LAMBDA lms :
        mat3MultiplyVec3(kLMStoCONE,
            << Mul(Mul(lms[1], lms[1]), lms[1]),
               Mul(Mul(lms[2], lms[2]), lms[2]),
               Mul(Mul(lms[3], lms[3]), lms[3]) >>),
        oklabLms(colA, colB, h))

(***************************************************************************)
(* mix_oklab.ts, lines 55-85: the sRGB transfer functions.                 *)
(***************************************************************************)
\* lines 60-62: c <= 0.0031308 ? (c * 12.92) : (1.055 * Math.pow(c, 1 / 2.4) - 0.055)
EncodeLinear(c) == Scale(c, 1292, 100)
EncodePower(c) ==
    Sub(Mul(Dec10(FALSE, 1, 5500, 0), Math_pow(c, "1 / 2.4")), Dec10(FALSE, 0, 5500, 0))
Encode(c) == Ternary(c, Dec10(FALSE, 0, 313, 8000), EncodeLinear, EncodePower)

\* hex: the values linearRGBtoHex(rgb) can return; nan: whether one of its
\* three encoded channels may be NaN
linearRGBtoHex(ergb) ==
    Ap3(LAMBDA r, g, b :
        [nan |-> r.nan \/ g.nan \/ b.nan,
         hex |-> { BitOr(BitOr(Shl(ri, 16), Shl(gi, 8)), bi) :
                     ri \in Times255PlusHalfOr0(r),
                     gi \in Times255PlusHalfOr0(g),
                     bi \in Times255PlusHalfOr0(b) }],
        Encode(ergb[1]), Encode(ergb[2]), Encode(ergb[3]))

\* lines 80-82: c <= 0.04045 ? (c / 12.92) : Math.pow((c + 0.055) / 1.055, 2.4)
DecodeLinear(c) == Scale(c, 100, 1292)
DecodePower(c) == Math_pow(Scale(Add(c, Dec10(FALSE, 0, 5500, 0)), 1000, 1055), "2.4")
\* Decode with a fault: the linear segment forgotten
DecodeNoLinear(c) == DecodePower(c)

Decode(c) == Ternary(c, Dec10(FALSE, 0, 4045, 0), DecodeLinear, DecodePower)

hexToLinearRGB(ehex) ==
    Ap1(LAMBDA hex :
        << Decode(DivInt(ShrAnd255(hex, 16), 255)),
           Decode(DivInt(ShrAnd255(hex, 8), 255)),
           Decode(DivInt(ShrAnd255(hex, 0), 255)) >>,
        ehex)

(***************************************************************************)
(* mix_oklab.ts, lines 87-106: hex strings.  A string is a sequence of     *)
(* one-character strings.                                                  *)
(***************************************************************************)
Digits == << "0", "1", "2", "3", "4", "5", "6", "7", "8", "9" >>
LowerAF == << "a", "b", "c", "d", "e", "f" >>
UpperAF == << "A", "B", "C", "D", "E", "F" >>
Range(f) == { f[k] : k \in DOMAIN f }

\* the character class [0-9A-Fa-f]
HexClass == Range(Digits) \cup Range(UpperAF) \cup Range(LowerAF)

\* the value of a digit of radix 16
DigitValue(ch) ==
    IF ch \in Range(Digits) THEN (CHOOSE k \in 1..10 : Digits[k] = ch) - 1
    ELSE IF ch \in Range(LowerAF) THEN (CHOOSE k \in 1..6 : LowerAF[k] = ch) + 9
    ELSE (CHOOSE k \in 1..6 : UpperAF[k] = ch) + 9

\* Number.prototype.toString(16) of an integer n >= 0
RECURSIVE toString16(_)
toString16(n) ==
    LET d == (Digits \o LowerAF)[(n % 16) + 1]
    IN  IF n < 16 THEN << d >> ELSE toString16(n \div 16) \o << d >>

\* parseInt(str, 16): the value of the longest prefix of digits, NaN if
\* there is none (the strings here hold no white space, sign or "0x", which
\* parseInt would skip)
RECURSIVE parseDigits(_, _)
parseDigits(str, acc) ==
    IF str = << >> \/ Head(str) \notin HexClass THEN acc
    ELSE parseDigits(Tail(str), acc * 16 + DigitValue(Head(str)))

parseInt16(str) ==
    IF str = << >> \/ Head(str) \notin HexClass
    THEN [nan |-> TRUE, value |-> 0]
    ELSE [nan |-> FALSE, value |-> parseDigits(str, 0)]

\* hexToString with a fault: no zero padding
hexToStringNoPad(hex) ==
    << "#" >> \o toString16(ShrAnd255(hex, 16)) \o toString16(ShrAnd255(hex, 8))
             \o toString16(ShrAnd255(hex, 0))

hexToString(hex) ==
    LET r == ShrAnd255(hex, 16)
        g == ShrAnd255(hex, 8)
        b == ShrAnd255(hex, 0)
    IN  << "#" >> \o
        ((IF r < 16 THEN << "0" >> ELSE << >>) \o toString16(r)) \o
        ((IF g < 16 THEN << "0" >> ELSE << >>) \o toString16(g)) \o
        ((IF b < 16 THEN << "0" >> ELSE << >>) \o toString16(b))

\* RegexTest with a fault: the anchors ^ and $ left out
RegexTestUnanchored(hexStr) ==
    \E p \in 0..Len(hexStr), k \in {0, 1} :
        /\ k = 1 => (Len(hexStr) >= p + 1 /\ hexStr[p + 1] = "#")
        /\ Len(hexStr) >= p + k + 6
        /\ \A j \in 1..6 : hexStr[p + k + j] \in HexClass

\* /^#?[0-9A-Fa-f]{6}$/.test(hexStr): with k the number of characters the
\* optional '#' consumes, six characters of the class follow and the input
\* ends there
RegexTest(hexStr) ==
    \E k \in {0, 1} :
        /\ k = 1 => (Len(hexStr) >= 1 /\ hexStr[1] = "#")
        /\ Len(hexStr) = k + 6
        /\ \A j \in 1..6 : hexStr[k + j] \in HexClass

\* stringToHex with a fault: the '#' is not sliced off before parseInt
stringToHexNoSlice(hexStr) ==
    IF ~RegexTest(hexStr) THEN [threw |-> TRUE, nan |-> FALSE, value |-> 0]
    ELSE [threw |-> FALSE, nan |-> parseInt16(hexStr).nan, value |-> parseInt16(hexStr).value]

\* the result of stringToHex: threw = TRUE when it throws
\* Error("Invalid hex color format."), else the number it returns
stringToHex(hexStr) ==
    IF ~RegexTest(hexStr) THEN [threw |-> TRUE, nan |-> FALSE, value |-> 0]
    ELSE LET sliced == IF hexStr[1] = "#" THEN Tail(hexStr) ELSE hexStr
             n      == parseInt16(sliced)
         IN  [threw |-> FALSE, nan |-> n.nan, value |-> n.value]

(***************************************************************************)
(* The CLI handler `call` (lines 112-136), one step per statement group.   *)
(*   args       the arguments the CLI layer passes: two strings and the    *)
(*              optional number, << >> when it is not supplied             *)
(*   pc         the statement the handler is at                            *)
(*   Start, End the locals of lines 113-114                                *)
(*   midpoints  the parameter as the handler reassigns it, << >> or <<n>>  *)
(*   i          the loop counter                                           *)
(*   out        the lines written with console.log                         *)
(* The pure functions are exercised on their own through                   *)
(*   fn         the function to apply next ("end": none)                   *)
(*   arg        its argument                                               *)
(*   ret        the values returned so far                                 *)
(***************************************************************************)
VARIABLES args, pc, Start, End, midpoints, i, out, fn, arg, ret

vars == << args, pc, Start, End, midpoints, i, out, fn, arg, ret >>
driverVars == << args, pc, Start, End, midpoints, i, out >>
pureVars == << fn, arg, ret >>

MaxMidpoints == 3
MaxStrLen == 7
GridN == 3

\* the strings the handler is run on
DriverStrings ==
    { << "#", "0", "0", "0", "0", "0", "0" >>,
      << "f", "f", "f", "f", "f", "f" >>,
      << "#", "F", "F", "0", "0", "0", "0" >>,
      << "0", "0", "0", "0", "F", "f" >>,
      << "#", "0", "a", "0", "B", "0", "c" >>,
      << "1", "A", "8", "0", "e", "6" >>,
      << "#", "0", "0", "f", "f", "0", "0" >>,
      << "F", "f", "F", "F", "0", "0" >>,
      << >>,
      << "#", "1", "2", "3", "4", "5" >>,
      << "z", "z", "z", "z", "z", "z" >>,
      << "#", "#", "F", "F", "0", "0", "F", "F" >> }

ZeroVec == << Exact(0), Exact(0), Exact(0) >>

DriverIdle ==
    /\ args = [start |-> << >>, end |-> << >>, midpoints |-> << >>]
    /\ pc = "idle" /\ Start = ZeroVec /\ End = ZeroVec
    /\ midpoints = << >> /\ i = 0 /\ out = << >>

PureIdle == fn = "end" /\ arg = << >> /\ ret = << >>

Init ==
    /\ args \in [start : DriverStrings, end : DriverStrings,
                 midpoints : {<< >>} \cup { << m >> : m \in 0..MaxMidpoints }]
    /\ pc = "parseStart"
    /\ Start = ZeroVec /\ End = ZeroVec
    /\ midpoints = args.midpoints
    /\ i = 0
    /\ out = << >>
    /\ PureIdle

\* line 113
ParseStart ==
    /\ pc = "parseStart"
    /\ \E hex \in { stringToHex(args.start) } :
           IF hex.threw
           THEN pc' = "threw" /\ Start' = Start
           ELSE pc' = "parseEnd"
                /\ Start' = hexToLinearRGB(IF hex.nan THEN 0 ELSE hex.value)
    /\ UNCHANGED << args, End, midpoints, i, out, pureVars >>

\* line 114
ParseEnd ==
    /\ pc = "parseEnd"
    /\ \E hex \in { stringToHex(args.end) } :
           IF hex.threw
           THEN pc' = "threw" /\ End' = End
           ELSE pc' = "default"
                /\ End' = hexToLinearRGB(IF hex.nan THEN 0 ELSE hex.value)
    /\ UNCHANGED << args, Start, midpoints, i, out, pureVars >>

\* Nullish with a fault: the default is 0
NullishZero(m) == IF m = << >> THEN << 0 >> ELSE m

\* line 115: midpoints ?? 1
Nullish(m) == IF m = << >> THEN << 1 >> ELSE m

DefaultMidpoints ==
    /\ pc = "default"
    /\ midpoints' = Nullish(midpoints)
    /\ pc' = "header"
    /\ UNCHANGED << args, Start, End, i, out, pureVars >>

\* Increment with a fault: midpoints += 2
IncrementByTwo(m) == << m[1] + 2 >>

\* line 121: midpoints += 1
Increment(m) == << m[1] + 1 >>

\* lines 117-122: the three header lines, the increment, let i = 0
PrintHeader ==
    /\ pc = "header"
    /\ out' = out \o << [kind |-> "header", text |-> << "Start: ", args.start >>],
                        [kind |-> "header", text |-> << "End: ", args.end >>],
                        [kind |-> "header", text |-> << "Midpoints: ", midpoints[1] >>] >>
    /\ midpoints' = Increment(midpoints)
    /\ i' = 0
    /\ pc' = "loop"
    /\ UNCHANGED << args, Start, End, pureVars >>

\* LoopCond with a fault: i < midpoints
LoopCondStrict(k, m) == k < m[1]

\* line 122: i <= midpoints
LoopCond(k, m) == k <= m[1]

\* Ratio with a fault: i / (midpoints + 1)
RatioOffByOne(k, m) == DivInt(k, m[1] + 1)

\* line 123: i / midpoints
Ratio(k, m) == DivInt(k, m[1])

\* lines 123-134: one iteration; the line written holds the ratio, whether
\* a NaN arose on the way, and the colour as a number and as a string
LoopBody ==
    /\ pc = "loop"
    /\ LoopCond(i, midpoints)
    /\ \E h \in { Ratio(i, midpoints) } :
       \E color \in { oklabMix(Start, End, h) } :
       \E hexes \in { linearRGBtoHex(color) } :
           \E hexColor \in hexes.hex :
               out' = Append(out,
                   [kind      |-> "colour",
                    i         |-> i,
                    h         |-> h,
                    nan       |-> color[1].nan \/ color[2].nan \/ color[3].nan \/ hexes.nan,
                    hexColor  |-> hexColor,
                    hexString |-> hexToString(hexColor)])
    /\ i' = i + 1
    /\ UNCHANGED << args, pc, Start, End, midpoints, pureVars >>

\* line 122: the loop ends
LoopExit ==
    /\ pc = "loop"
    /\ ~LoopCond(i, midpoints)
    /\ pc' = "done"
    /\ UNCHANGED << args, Start, End, midpoints, i, out, pureVars >>

Next == ParseStart \/ ParseEnd \/ DefaultMidpoints \/ PrintHeader \/ LoopBody \/ LoopExit

Spec == Init /\ [][Next]_vars

(***************************************************************************)
(* The pure functions on their own: the inputs are drawn by Init, each     *)
(* step applies one function to the argument or to the last result.        *)
(***************************************************************************)
\* stringToHex, then hexToString on what it returned
ParseChars == { "#", "0", "a", "F", "z" }

ParseInputs ==
    UNION { [1..n -> ParseChars] : n \in 0..MaxStrLen }
        \cup { << "#", "1", "2", "3", "4", "5" >> }

ParseInit ==
    /\ DriverIdle
    /\ fn = "stringToHex"
    /\ arg \in ParseInputs
    /\ ret = << >>

StringToHexStep ==
    /\ fn = "stringToHex"
    /\ ret' = << stringToHex(arg) >>
    /\ fn' = IF ret'[1].threw THEN "end" ELSE "hexToString"
    /\ UNCHANGED << arg, driverVars >>

HexToStringStep ==
    /\ fn = "hexToString"
    /\ ret' = Append(ret, hexToString(IF ret[1].nan THEN 0 ELSE ret[1].value))
    /\ fn' = "end"
    /\ UNCHANGED << arg, driverVars >>

ParseNext == StringToHexStep \/ HexToStringStep

ParseSpec == ParseInit /\ [][ParseNext]_vars

\* hexToLinearRGB, then linearRGBtoHex on what it returned.  Every channel
\* takes every 8-bit value, beside channels that differ from it, that equal
\* it, and that are at the ends of the range.
Pack(r, g, b) == r * 65536 + g * 256 + b

CodecInputs ==
    UNION { { Pack(c, (c + 85) % 256, (c + 170) % 256), Pack(c, c, c),
              Pack(255, c, 0), Pack(0, 255 - c, c) } : c \in 0..255 }

CodecInit ==
    /\ DriverIdle
    /\ fn = "hexToLinearRGB"
    /\ arg \in CodecInputs
    /\ ret = << >>

HexToLinearStep ==
    /\ fn = "hexToLinearRGB"
    /\ ret' = << hexToLinearRGB(arg) >>
    /\ fn' = "linearRGBtoHex"
    /\ UNCHANGED << arg, driverVars >>

LinearToHexStep ==
    /\ fn = "linearRGBtoHex"
    /\ \E hex \in linearRGBtoHex(ret[1]).hex : ret' = Append(ret, hex)
    /\ fn' = "end"
    /\ UNCHANGED << arg, driverVars >>

CodecNext == HexToLinearStep \/ LinearToHexStep

CodecSpec == CodecInit /\ [][CodecNext]_vars

\* oklabMix at the two ends of the ratio, on in-gamut colours: one colour
\* from the grid of channels k / GridN, the other a corner of the gamut
GridColours ==
    { << Exact((r * One) \div GridN), Exact((g * One) \div GridN), Exact((b * One) \div GridN) >> :
        r \in 0..GridN, g \in 0..GridN, b \in 0..GridN }

FixedColours ==
    { << Exact(r * One), Exact(g * One), Exact(b * One) >> :
        r \in {0, 1}, g \in {0, 1}, b \in {0, 1} }

MixInputs ==
    UNION { { [colA |-> x, colB |-> y, h |-> h], [colA |-> y, colB |-> x, h |-> h] } :
              x \in GridColours, y \in FixedColours, h \in { Exact(0), Exact(One) } }

MixInit ==
    /\ DriverIdle
    /\ fn = "oklabMix"
    /\ arg \in MixInputs
    /\ ret = << >>

OklabMixStep ==
    /\ fn = "oklabMix"
    /\ ret' = << oklabMix(arg.colA, arg.colB, arg.h) >>
    /\ fn' = "end"
    /\ UNCHANGED << arg, driverVars >>

MixNext == OklabMixStep

MixSpec == MixInit /\ [][MixNext]_vars

(***************************************************************************)
(* The claims.                                                             *)
(***************************************************************************)
IsColour(line) == line.kind = "colour"

\* the colour lines written so far, in the order written
Colours == SelectSeq(out, IsColour)

\* a hex colour string as the specification describes it: an optional single
\* leading '#', then exactly six hexadecimal digits and nothing else
HexBody(s) == IF s # << >> /\ Head(s) = "#" THEN Tail(s) ELSE s

ValidHexString(s) ==
    /\ Len(HexBody(s)) = 6
    /\ \A j \in 1..6 : HexBody(s)[j] \in HexClass

\* the 24-bit integer six hexadecimal digits denote
Denoted(d) ==
    DigitValue(d[1]) * 16^5 + DigitValue(d[2]) * 16^4 + DigitValue(d[3]) * 16^3
        + DigitValue(d[4]) * 16^2 + DigitValue(d[5]) * 16 + DigitValue(d[6])

ToLower(ch) ==
    IF ch \in Range(UpperAF) THEN LowerAF[CHOOSE k \in 1..6 : UpperAF[k] = ch] ELSE ch

\* '#' and the six digits of s in lower case
Canonical(s) == << "#" >> \o [j \in 1..6 |-> ToLower(HexBody(s)[j])]

\* the midpoint count of the run: the one supplied, 1 when none is
M == IF args.midpoints = << >> THEN 1 ELSE args.midpoints[1]

StartHex == Denoted(HexBody(args.start))
EndHex == Denoted(HexBody(args.end))

\* C1: for valid start and end colours and a midpoint count m >= 0 the
\* handler writes exactly m + 2 colours, one per index i = 0..m+1 in
\* increasing order, and then stops: it never throws, and once done
\* nothing more happens.
C1_SequenceLength ==
    /\ \A k \in 1..Len(Colours) : Colours[k].i = k - 1
    /\ Len(Colours) <= M + 2
    /\ pc = "done" => (Len(Colours) = M + 2 /\ ~ENABLED Next)
    /\ (ValidHexString(args.start) /\ ValidHexString(args.end)) => pc # "threw"

C1_Witness ==
    pc = "done" /\ args.midpoints = << 3 >> /\ Len(Colours) = 5 /\ Colours[5].i = 4

\* C2 as stated: a run with midpoint count 1 (supplied or defaulted) yields
\* 4 colours.
C2_FourColours == (pc = "done" /\ M = 1) => Len(Colours) = 4

\* C2 as amended: a midpoint count that is not supplied defaults to 1, and a
\* run with midpoint count 1 (supplied or defaulted) yields 3 colours: the
\* start colour (ratio 0), one blend at ratio 1/2, and the end colour
\* (ratio 1).
C2_ThreeColours ==
    /\ (args.midpoints = << >> /\ pc = "header") => midpoints = << 1 >>
    /\ (pc = "done" /\ M = 1) =>
          /\ Len(Colours) = 3
          /\ Colours[1].h = Exact(0) /\ Colours[1].hexColor = StartHex
          /\ Colours[2].h = Exact(One \div 2)
          /\ Colours[3].h = Exact(One) /\ Colours[3].hexColor = EndHex

C2_Witness ==
    /\ pc = "done" /\ args.midpoints = << >> /\ Len(Colours) = 3
    /\ Colours[2].hexColor \notin { StartHex, EndHex }

\* C3 as stated: a run with midpoint count 0 yields exactly 3 colours.
C3_ThreeColours == (pc = "done" /\ args.midpoints = << 0 >>) => Len(Colours) = 3

\* C3 as amended: a run with midpoint count 0 yields exactly 2 colours, the
\* start colour (ratio 0) and the end colour (ratio 1), and no blend between
\* them.
C3_TwoColours ==
    (pc = "done" /\ args.midpoints = << 0 >>) =>
        /\ Len(Colours) = 2
        /\ Colours[1].h = Exact(0) /\ Colours[1].hexColor = StartHex
        /\ Colours[2].h = Exact(One) /\ Colours[2].hexColor = EndHex

C3_Witness ==
    /\ pc = "done" /\ args.midpoints = << 0 >> /\ Len(Colours) = 2
    /\ args.start = << "#", "F", "F", "0", "0", "0", "0" >>
    /\ args.end = << "0", "0", "0", "0", "F", "f" >>

\* C4: the ratio passed to oklabMix at index i is i / (m + 1): exactly 0 at
\* the first index, exactly 1 at the last, in [0, 1] at every index and
\* strictly increasing in i; the first colour written is the start colour and
\* the last the end colour.
C4_Ratio ==
    /\ \A k \in 1..Len(Colours) :
          LET h == Colours[k].h
          IN  /\ ~h.nan
              /\ h.lo * (M + 1) <= (k - 1) * One
              /\ (k - 1) * One <= h.hi * (M + 1)
              /\ h.hi - h.lo <= 1
              /\ 0 <= h.lo /\ h.hi <= One
              /\ k = 1 => h = Exact(0)
              /\ k = M + 2 => h = Exact(One)
              /\ k > 1 => Colours[k - 1].h.hi < h.lo
    /\ pc = "done" =>
          /\ Colours[1].hexColor = StartHex
          /\ Colours[Len(Colours)].hexColor = EndHex

C4_Witness ==
    /\ pc = "done" /\ args.midpoints = << 2 >>
    /\ Colours[2].h.lo > 0 /\ Colours[2].h.hi < Colours[3].h.lo
    /\ Colours[4].h = Exact(One)

\* C5: stringToHex returns exactly on the strings made of an optional single
\* leading '#' and exactly six hexadecimal digits of either case, and then
\* returns the 24-bit integer the digits denote ("#FF00FF" gives 0xFF00FF);
\* on every other string ("zzzzzz", "#12345" and the empty string among
\* them) it throws and returns nothing.
C5_Parse ==
    Len(ret) >= 1 =>
        /\ ret[1].threw <=> ~ValidHexString(arg)
        /\ ret[1].threw => (Len(ret) = 1 /\ fn = "end")
        /\ ~ret[1].threw =>
              /\ ~ret[1].nan
              /\ ret[1].value = Denoted(HexBody(arg))
              /\ ret[1].value \in 0..(2^24 - 1)
        /\ arg = << "#", "F", "F", "0", "0", "F", "F" >> =>
              (~ret[1].threw /\ ret[1].value = 16711935)
        /\ arg \in { << "z", "z", "z", "z", "z", "z" >>,
                     << "#", "1", "2", "3", "4", "5" >>, << >> } => ret[1].threw

C5_Witness ==
    /\ Len(ret) >= 1 /\ ~ret[1].threw
    /\ arg = << "#", "F", "F", "0", "0", "F", "F" >>
    /\ ret[1].value = 16711935

\* C6: for every valid hex colour string s, hexToString(stringToHex(s)) is
\* '#' followed by the six digits of s in lower case, 7 characters in all.
C6_RoundTrip ==
    /\ Len(ret) = 2 => (ret[2] = Canonical(arg) /\ Len(ret[2]) = 7)
    /\ (ValidHexString(arg) /\ fn = "end") => Len(ret) = 2

C6_Witness ==
    /\ Len(ret) = 2
    /\ arg = << "F", "0", "0", "a", "0", "0" >>
    /\ ret[2] = << "#", "f", "0", "0", "a", "0", "0" >>

\* C7: for every 24-bit colour hex, linearRGBtoHex(hexToLinearRGB(hex)) has
\* each of its three 8-bit channels within 1 of that channel of hex, and is
\* a 24-bit value whose channels do not reach into one another.
C7_SrgbRoundTrip ==
    Len(ret) = 2 =>
        /\ ret[2] \in 0..(2^24 - 1)
        /\ \A k \in {16, 8, 0} : Abs(ShrAnd255(ret[2], k) - ShrAnd255(arg, k)) <= 1

C7_Witness ==
    Len(ret) = 2 /\ arg = Pack(11, 96, 181) /\ ret[2] = arg

\* C8: for in-gamut linear colours A and B, oklabMix(A, B, 0) is within 1e-6
\* of A and oklabMix(A, B, 1) within 1e-6 of B, channel by channel.
Tolerance == One \div 1000000

C8_IdentityMix ==
    Len(ret) = 1 =>
        LET target == IF arg.h = Exact(0) THEN arg.colA ELSE arg.colB
        IN  \A k \in 1..3 :
                /\ ~ret[1][k].nan
                /\ ret[1][k].lo >= target[k].lo - Tolerance
                /\ ret[1][k].hi <= target[k].hi + Tolerance

C8_Witness ==
    /\ Len(ret) = 1 /\ arg.h = Exact(One)
    /\ arg.colA = << Exact(One), Exact(0), Exact(One) >>
    /\ arg.colB = << Exact(One \div GridN), Exact(One), Exact(0) >>
    /\ ret[1][1].lo > 0 /\ ret[1][2].hi > One \div 2

\* C10: in the handler the base of every cube root is non-negative: the
\* channels hexToLinearRGB gives are in [0, 1] (the upper end to within the
\* width of an enclosure), every cone response kCONEtoLMS * colour is
\* non-negative, the interpolated vector is non-negative at every ratio the
\* loop uses, and no step of any colour line yields NaN.
EnclosureWidth == 2^4

InGamut(col) ==
    \A k \in 1..3 : ~col[k].nan /\ col[k].lo >= 0 /\ col[k].hi <= One + EnclosureWidth

NonNegative(vec) == \A k \in 1..3 : ~vec[k].nan /\ vec[k].lo >= 0

C10_NoNaN ==
    /\ InGamut(Start) /\ InGamut(End)
    /\ \A cone \in { mat3MultiplyVec3(kCONEtoLMS, Start),
                     mat3MultiplyVec3(kCONEtoLMS, End) } : NonNegative(cone)
    /\ (pc = "loop" /\ LoopCond(i, midpoints)) =>
          \A lms \in { oklabLms(Start, End, Ratio(i, midpoints)) } : NonNegative(lms)
    /\ \A k \in 1..Len(Colours) : ~Colours[k].nan

C10_Witness ==
    /\ pc = "done" /\ args.midpoints = << 3 >> /\ Len(Colours) = 5
    /\ args.start = << "#", "F", "F", "0", "0", "0", "0" >>
    /\ args.end = << "0", "0", "0", "0", "F", "f" >>
    /\ \A k \in 1..5 : ~Colours[k].nan

\* C9: if the start or the end string is not a valid hex colour the handler
\* throws before anything is written: no header line, no colour line, the
\* loop is never entered, and nothing runs after the throw.
C9_FailFast ==
    /\ (~ValidHexString(args.start) \/ ~ValidHexString(args.end)) =>
          /\ out = << >>
          /\ i = 0
          /\ pc \in { "parseStart", "parseEnd", "threw" }
    /\ ~ValidHexString(args.start) => pc \in { "parseStart", "threw" }
    /\ pc = "threw" =>
          /\ ~ValidHexString(args.start) \/ ~ValidHexString(args.end)
          /\ ~ENABLED Next

C9_Witness ==
    /\ pc = "threw" /\ out = << >>
    /\ ValidHexString(args.start) /\ ~ValidHexString(args.end)

====

